---- MODULE Spec2Model ----
(***************************************************************************)
(* Flask-WhooshAlchemy (flask_whooshalchemy.py): the commit handler that   *)
(* keeps one Whoosh index per searchable model in step with the relational *)
(* store, the index registry, the searcher and the query proxy that        *)
(* re-orders relational rows by text rank.                                 *)
(*                                                                         *)
(* The Whoosh writer is modelled by its documented contract: a writer      *)
(* buffers added documents and marks committed documents deleted;          *)
(* update_document and delete_by_term look only at COMMITTED documents     *)
(* (update_document "cannot replace documents you've added to the          *)
(* IndexWriter but haven't yet committed"); leaving the with-block commits *)
(* on success and cancels on an exception.  index.writer() takes the write *)
(* lock of the index directory without blocking and raises LockError when  *)
(* another writer holds it; create_in starts the index of a directory      *)
(* anew; update_document with a field the schema lacks raises              *)
(* UnknownFieldError.                                                      *)
(***************************************************************************)
EXTENDS Integers, Sequences, FiniteSets, Bags, TLC

\* ---------------------------------------------------------------- bounds
MaxPk == 2      \* primary keys of the records a recorded commit carries
MaxBatch == 2   \* changes in one commit
MaxRow == 3     \* primary keys of the rows and records of the query scenario
MaxThreads == 2 \* threads that run commit notifications at the same time

\* ------------------------------------------------------------- utilities
Range(s) == {s[i] : i \in DOMAIN s}

EmptyDict == [x \in {} |-> x]

\* dict[key] = value on a Python dict modelled as a function
DictSet(d, key, value) == (key :> value) @@ d

\* an optional argument: None, or <<x>> for the value x
None == <<>>

Perms(S) == {p \in [1..Cardinality(S) -> S] : Range(p) = S}

\* -------------------------------------------------- the declared models
Models == {"Article", "Note", "Plain", "Tag", "Counter"}

Columns(m) ==
  CASE m = "Article" -> << [name |-> "id", type |-> "Integer", primary_key |-> TRUE],
                           [name |-> "title", type |-> "Text", primary_key |-> FALSE] >>
    [] m = "Note"    -> << [name |-> "id", type |-> "Integer", primary_key |-> TRUE],
                           [name |-> "body", type |-> "Text", primary_key |-> FALSE] >>
    [] m = "Plain"   -> << [name |-> "id", type |-> "Integer", primary_key |-> TRUE],
                           [name |-> "name", type |-> "Text", primary_key |-> FALSE] >>
    [] m = "Tag"     -> << [name |-> "name", type |-> "String", primary_key |-> TRUE],
                           [name |-> "label", type |-> "Text", primary_key |-> FALSE] >>
    [] m = "Counter" -> << [name |-> "id", type |-> "Integer", primary_key |-> TRUE],
                           [name |-> "title", type |-> "Text", primary_key |-> FALSE],
                           [name |-> "views", type |-> "Integer", primary_key |-> FALSE] >>

\* hasattr(cls, '__searchable__')
HasSearchable(m) == m \in {"Article", "Note", "Tag", "Counter"}

\* cls.__searchable__
Searchable(m) ==
  CASE m = "Article" -> <<"title">>
    [] m = "Note"    -> <<"body">>
    [] m = "Tag"     -> <<"name", "label">>
    [] m = "Counter" -> <<"title", "views">>
    [] OTHER         -> <<>>

ColumnType(m, name) == (CHOOSE c \in Range(Columns(m)) : c.name = name).type

PrimaryColumn(m) == (CHOOSE c \in Range(Columns(m)) : c.primary_key).name

TextualTypes == {"Text", "String", "Unicode"}

\* unicode(value): the decimal string of an integer, a text unchanged
Unicode(value, type) == IF type = "Integer" THEN ToString(value) ELSE value

\* ----------------------------------------------------------- input sets
Words == {"red", "green"}

\* a text is a sequence of words
Texts == {<<"red">>, <<"green">>}

Pks(m) == IF m = "Article" THEN 1..MaxPk ELSE {1}

TextsOf(m) == IF m = "Article" THEN Texts ELSE {<<"red">>}

\* A record instance: its class and the attributes present on it.  The
\* primary key is always present; the other columns are present or absent.
FullRecords(m) ==
  LET other == CHOOSE c \in Range(Columns(m)) : ~c.primary_key
  IN  {[class |-> m,
        attrs |-> (PrimaryColumn(m) :> pk) @@ (other.name :> t)] :
         pk \in Pks(m), t \in TextsOf(m)}

BareRecords(m) ==
  {[class |-> m, attrs |-> (PrimaryColumn(m) :> pk)] : pk \in Pks(m)}

\* the (record, operation) pairs a commit may carry: inserts and updates of
\* whole records, inserts of records that lack their text attribute, deletes
ChangesOf(m) ==
  {<<r, op>> : r \in FullRecords(m),
               op \in IF m = "Article" THEN {"insert", "update"} ELSE {"insert"}}
    \cup {<<r, "insert">> : r \in BareRecords(m)}
    \cup {<<r, "delete">> : r \in BareRecords(m)}

ChangeSet == ChangesOf("Article") \cup ChangesOf("Note")
               \cup {<<r, "insert">> : r \in FullRecords("Plain")}

\* ------------------------------------------------------------ the state
VARIABLES
  whoosh_indexes,  \* app.whoosh_indexes: model name -> index handle (its directory)
  disk,            \* per index directory: does an index exist, its schema, its documents (a bag)
  query,           \* per model: the class of the object bound to Model.query
  pure_whoosh,     \* per model with the attribute: the _Searcher bound to Model.pure_whoosh
  calls,           \* per model: how often its index was opened, created, cached, its proxy installed
  changes,         \* the (record, operation) list of the current commit
  flush,           \* how the handler ended on `changes`, once it has run
  table,           \* the relational store: per model, the primary keys of its rows
  q,               \* the query object the caller holds, if any
  search,          \* the last whoosh_search: the query it ran on and the Searcher's results
  it,              \* the last iteration: the rows as the store produced them and as yielded
  ret,             \* the last call of _whoosh_index made on its own: its model, what it returned
  threads,         \* per thread: where it is in the handler, and the handler's locals
  locks            \* per index directory: the thread that holds its write lock, or 0

vars == <<whoosh_indexes, disk, query, pure_whoosh, calls, changes, flush, table, q, search, it,
          ret, threads, locks>>

registry == <<whoosh_indexes, disk, query, pure_whoosh, calls>>
commit == <<changes, flush>>
caller == <<table, q, search, it>>
workers == <<threads, locks>>

NoFlush == [done |-> FALSE, raised |-> "none", failed |-> "none", committed |-> <<>>,
            order |-> <<>>]

\* ------------------------------------------------------- schema deriver
RECURSIVE SchemaLoop(_, _, _, _)
SchemaLoop(m, i, schema, primary) ==
  IF i > Len(Columns(m)) THEN [schema |-> schema, primary |-> primary]
  ELSE LET field == Columns(m)[i]
           s1 == IF field.primary_key THEN DictSet(schema, field.name, "ID") ELSE schema
           p1 == IF field.primary_key THEN field.name ELSE primary
           s2 == IF field.name \in Range(Searchable(m)) /\ field.type \in TextualTypes
                   THEN DictSet(s1, field.name, "TEXT")
                   ELSE s1
       IN  SchemaLoop(m, i + 1, s2, p1)

GetWhooshSchemaAndPrimary(m) == SchemaLoop(m, 1, EmptyDict, "none")

\* --------------------------------------------------------- index engine
\* StemmingAnalyzer: the terms of a text
Analyze(text) == Range(text)

\* does the document have the term `text` in `field`
TermMatch(schema, doc, field, text) ==
  /\ field \in DOMAIN schema
  /\ field \in DOMAIN doc
  /\ IF schema[field] = "ID" THEN doc[field] = text
                             ELSE text \in Analyze(doc[field])

\* index.writer(): nothing deleted, nothing added yet
NewWriter == [deleted |-> {}, added |-> <<>>, error |-> "none"]

\* writer.update_document(**attrs): committed documents with the same value in
\* a unique field are marked deleted, the new document is buffered.
UpdateDocument(w, ix, attrs) ==
  LET unique == {n \in DOMAIN attrs \cap DOMAIN ix.schema : ix.schema[n] = "ID"}
      old == {d \in BagToSet(ix.docs) :
                \E n \in unique : TermMatch(ix.schema, d, n, attrs[n])}
  IN  IF ~(DOMAIN attrs \subseteq DOMAIN ix.schema)
        THEN [w EXCEPT !.error = "UnknownFieldError"]
        ELSE [w EXCEPT !.deleted = @ \cup old, !.added = Append(@, attrs)]

\* writer.delete_by_term(field, text)
DeleteByTerm(w, ix, field, text) ==
  [w EXCEPT !.deleted = @ \cup {d \in BagToSet(ix.docs) :
                                   TermMatch(ix.schema, d, field, text)}]

RECURSIVE SeqToBag(_)
SeqToBag(s) == IF s = <<>> THEN EmptyBag ELSE SetToBag({Head(s)}) (+) SeqToBag(Tail(s))

\* writer.commit()
WriterCommit(w, ix) ==
  LET kept == BagToSet(ix.docs) \ w.deleted
  IN  [ix EXCEPT !.docs = [d \in kept |-> ix.docs[d]] (+) SeqToBag(w.added)]

\* -------------------------------------------------------------- searcher
\* the parser with its two groups exchanged
QueryMatchSwapped(ix, doc, words, fields, or_) ==
  LET hit(w) == \E f \in fields : TermMatch(ix.schema, doc, f, w)
  IN  /\ words # <<>>
      /\ IF or_ THEN \A w \in Range(words) : hit(w)
                ELSE \E w \in Range(words) : hit(w)

\* parser.parse(query) over `fields` with AndGroup / OrGroup, matched against
\* one document: a word matches when some field holds it as a term
QueryMatch(ix, doc, words, fields, or_) ==
  LET hit(w) == \E f \in fields : TermMatch(ix.schema, doc, f, w)
  IN  /\ words # <<>>
      /\ IF or_ THEN \E w \in Range(words) : hit(w)
                ELSE \A w \in Range(words) : hit(w)

\* the committed documents the query matches, with their multiplicities
Matching(ix, words, fields, or_) ==
  LET found == {d \in BagToSet(ix.docs) : QueryMatch(ix, d, words, fields, or_)}
  IN  [d \in found |-> ix.docs[d]]

\* the stored fields of a hit
Stored(ix, doc) ==
  [f \in {g \in DOMAIN doc \cap DOMAIN ix.schema : ix.schema[g] = "ID"} |-> doc[f]]

Count(seq, x) == Cardinality({i \in DOMAIN seq : seq[i] = x})

\* every order the scores may put the matching documents in
RECURSIVE Rankings(_)
Rankings(bag) ==
  IF BagToSet(bag) = {} THEN {<<>>}
  ELSE UNION {{<<d>> \o r : r \in Rankings(bag (-) SetToBag({d}))} : d \in BagToSet(bag)}

\* _Searcher.__call__(query, limit, fields, or_): the results the index may
\* return; `length` is the number of matches, `hits` the top `limit` of them
SearcherCall(searcher, ix, words, limit, fields, or_) ==
  LET fs == IF fields = None THEN searcher.all_fields ELSE fields[1]
      bag == Matching(ix, words, fs, or_)
      top(r) == IF limit = None \/ limit[1] > Len(r) THEN Len(r) ELSE limit[1]
  IN  {[length |-> BagCardinality(bag),
        hits |-> [i \in 1..top(r) |-> Stored(ix, r[i])]] : r \in Rankings(bag)}

\* ------------------------------------------------------- index registry
\* _Searcher(primary, indx)
NewSearcher(primary, ix) ==
  [primary_key_name |-> primary, all_fields |-> DOMAIN ix.schema \ {primary}]

NoCalls == [opened |-> 0, created |-> 0, cached |-> 0, installed |-> 0]

\* whoosh.index.open_dir(wi) / create_in(wi, schema): the directory after the
\* call (create_in starts the index anew) and the handle returned; a handle
\* is the directory with the serial number of the call that made it
OpenOrCreate(dir, m, sp, found, count) ==
  [dir |-> IF found THEN dir
           ELSE [exists |-> TRUE, schema |-> sp.schema, docs |-> EmptyBag],
   indx |-> [dir |-> m, serial |-> count.opened + count.created + 1],
   count |-> IF found THEN [count EXCEPT !.opened = @ + 1]
             ELSE [count EXCEPT !.created = @ + 1]]

\* app.whoosh_indexes[model.__class__.__name__] = indx
CacheIndex(st, m, indx) ==
  [st EXCEPT !.whoosh_indexes = DictSet(@, m, indx),
             !.calls[m].cached = @ + 1]

\* the tail of _whoosh_index without the query proxy: only pure_whoosh is
\* bound to the class
InstallSearcherOnly(st, m, primary) ==
  [st EXCEPT !.pure_whoosh = DictSet(@, m, NewSearcher(primary, st.disk[m])),
             !.calls[m].installed = @ + 1]

\* the tail of _whoosh_index: the searcher, the query proxy bound to the
\* class, the pure_whoosh attribute
InstallProxy(st, m, primary) ==
  [st EXCEPT !.query[m] = "_QueryProxy",
             !.pure_whoosh = DictSet(@, m, NewSearcher(primary, st.disk[m])),
             !.calls[m].installed = @ + 1]

\* _whoosh_index that never finds the handle it cached
WhooshIndexUncached(st, m) ==
  LET sp == GetWhooshSchemaAndPrimary(m)
      oc == OpenOrCreate(st.disk[m], m, sp, st.disk[m].exists, st.calls[m])
      st1 == [st EXCEPT !.disk[m] = oc.dir, !.calls[m] = oc.count]
  IN  InstallProxy(CacheIndex(st1, m, oc.indx), m, sp.primary)

\* _whoosh_index(app, model) on the state st, run without interruption;
\* returns the state after it
WhooshIndex(st, m) ==
  IF m \in DOMAIN st.whoosh_indexes THEN st
  ELSE LET sp == GetWhooshSchemaAndPrimary(m)
           oc == OpenOrCreate(st.disk[m], m, sp, st.disk[m].exists, st.calls[m])
           st1 == [st EXCEPT !.disk[m] = oc.dir, !.calls[m] = oc.count]
       IN  InstallProxy(CacheIndex(st1, m, oc.indx), m, sp.primary)

\* ---------------------------------------------------------- query proxy
\* One conjunct of a query's WHERE clause: the always-false text 'null', the
\* primary key in a set of key strings, or a caller's filter id <= value.
NullCriterion == [kind |-> "null", keys |-> {}, value |-> 0]
InCriterion(keys) == [kind |-> "in", keys |-> keys, value |-> 0]
LeCriterion(n) == [kind |-> "le", keys |-> {}, value |-> n]

\* the filters a caller may chain
CallerFilters == {LeCriterion(n) : n \in 2..(MaxRow - 1)}

\* does the row with primary key pk satisfy the conjunct (the store compares
\* the integer column with the key strings by their decimal form)
Satisfies(pk, c) ==
  CASE c.kind = "null" -> FALSE
    [] c.kind = "in"   -> Unicode(pk, "Integer") \in c.keys
    [] c.kind = "le"   -> pk <= c.value

\* the rows the relational store returns for the query
Rows(qo) == {pk \in table[qo.model] : \A c \in qo.criterion : Satisfies(pk, c)}

\* Model.query: a plain query before the proxy is installed, afterwards the
\* installed _QueryProxy (a copy of the plain query, no rank map)
ModelQueryObject(m) ==
  [model |-> m, class |-> query[m], criterion |-> {}, whoosh_rank |-> None]

\* Query.filter(criterion): a copy of the query with one more conjunct
FilterQuery(qo, c) == [qo EXCEPT !.criterion = @ \cup {c}]

\* _EmptyQuery with the 'null' filter left out: the model's whole query
EmptyQueryUnfiltered(m) == ModelQueryObject(m)

\* _EmptyQuery(model)
EmptyQuery(m) == FilterQuery(ModelQueryObject(m), NullCriterion)

\* the loop over the results with ranks counted from 1 (enumerate(results, 1))
RECURSIVE ResultRanksFromOne(_, _, _, _)
ResultRanksFromOne(hits, i, primary_key_name, result_ranks) ==
  IF i > Len(hits) THEN result_ranks
  ELSE ResultRanksFromOne(hits, i + 1, primary_key_name,
                          DictSet(result_ranks, hits[i][primary_key_name], i))

\* the loop over enumerate(results): the rank map, a later hit of a key
\* overwriting an earlier one
RECURSIVE ResultRanks(_, _, _, _)
ResultRanks(hits, i, primary_key_name, result_ranks) ==
  IF i > Len(hits) THEN result_ranks
  ELSE ResultRanks(hits, i + 1, primary_key_name,
                   DictSet(result_ranks, hits[i][primary_key_name], i - 1))

\* whoosh_search that attaches the rank map without filtering the query by
\* the hit keys
WhooshSearchUnfiltered(qo, results) ==
  IF results.length = 0 THEN EmptyQuery(qo.model)
  ELSE LET primary_key_name == pure_whoosh[qo.model].primary_key_name
           result_ranks == ResultRanks(results.hits, 1, primary_key_name, EmptyDict)
       IN  [qo EXCEPT !.whoosh_rank = <<result_ranks>>]

\* _QueryProxy.whoosh_search, given the results the Searcher returned
WhooshSearchResult(qo, results) ==
  IF results.length = 0 THEN EmptyQuery(qo.model)
  ELSE LET primary_key_name == pure_whoosh[qo.model].primary_key_name
           result_ranks == ResultRanks(results.hits, 1, primary_key_name, EmptyDict)
           f == FilterQuery(qo, InCriterion(DOMAIN result_ranks))
       IN  [f EXCEPT !.whoosh_rank = <<result_ranks>>]

\* heap items are (rank, row) tuples, compared by rank and then by row
ItemLess(a, b) == a[1] < b[1] \/ (a[1] = b[1] /\ a[2] < b[2])

\* heapq._siftdown(heap, startpos, pos), positions counted from 1
RECURSIVE SiftDownLoop(_, _, _, _)
SiftDownLoop(heap, startpos, pos, newitem) ==
  IF pos > startpos /\ ItemLess(newitem, heap[pos \div 2])
    THEN SiftDownLoop([heap EXCEPT ![pos] = heap[pos \div 2]], startpos, pos \div 2, newitem)
    ELSE [heap EXCEPT ![pos] = newitem]

SiftDown(heap, startpos, pos) == SiftDownLoop(heap, startpos, pos, heap[pos])

\* heapq._siftup(heap, pos)
RECURSIVE SiftUpLoop(_, _, _)
SiftUpLoop(heap, pos, newitem) ==
  LET childpos == 2 * pos
      rightpos == childpos + 1
      c == IF rightpos <= Len(heap) /\ ~ItemLess(heap[childpos], heap[rightpos])
             THEN rightpos ELSE childpos
  IN  IF childpos <= Len(heap)
        THEN SiftUpLoop([heap EXCEPT ![pos] = heap[c]], c, newitem)
        ELSE [heap |-> [heap EXCEPT ![pos] = newitem], pos |-> pos]

SiftUp(heap, pos) ==
  LET r == SiftUpLoop(heap, pos, heap[pos]) IN SiftDown(r.heap, pos, r.pos)

\* a push that appends without restoring the heap order (list.append in
\* place of heapq.heappush)
HeapPushAppend(heap, item) == Append(heap, item)

\* heapq.heappush(heap, item)
HeapPush(heap, item) == SiftDown(Append(heap, item), 1, Len(heap) + 1)

\* heapq.heappop(heap): the item returned and the heap left
HeapPop(heap) ==
  LET lastelt == heap[Len(heap)]
      rest == SubSeq(heap, 1, Len(heap) - 1)
  IN  IF rest = <<>> THEN [item |-> lastelt, heap |-> rest]
      ELSE [item |-> rest[1], heap |-> SiftUp([rest EXCEPT ![1] = lastelt], 1)]

\* the loop over super_iter: every row pushed with its rank; a row whose key
\* the rank map lacks raises KeyError
RECURSIVE PushRows(_, _, _, _)
PushRows(rows, i, whoosh_rank, heap) ==
  IF i > Len(rows) THEN [heap |-> heap, error |-> "none"]
  ELSE LET key == Unicode(rows[i], "Integer")
       IN  IF key \notin DOMAIN whoosh_rank
             THEN [heap |-> heap, error |-> "KeyError"]
             ELSE PushRows(rows, i + 1, whoosh_rank,
                           HeapPush(heap, <<whoosh_rank[key], rows[i]>>))

\* _inner(): the rows popped until the heap is empty
RECURSIVE PopRows(_)
PopRows(heap) ==
  IF heap = <<>> THEN <<>>
  ELSE LET r == HeapPop(heap) IN <<r.item[2]>> \o PopRows(r.heap)

\* an iteration that orders the rows also when no rank map is attached, by
\* primary key
ProxyIterAlwaysOrdered(qo, rows) ==
  LET by_key == [k \in {Unicode(pk, "Integer") : pk \in Range(rows)} |->
                   CHOOSE pk \in Range(rows) : Unicode(pk, "Integer") = k]
      whoosh_rank == IF qo.whoosh_rank = None THEN by_key ELSE qo.whoosh_rank[1]
      pushed == PushRows(rows, 1, whoosh_rank, <<>>)
  IN  IF pushed.error # "none" THEN [out |-> <<>>, error |-> pushed.error]
      ELSE [out |-> PopRows(pushed.heap), error |-> "none"]

\* _QueryProxy.__iter__ on the rows as the store produced them
ProxyIter(qo, rows) ==
  IF qo.whoosh_rank = None THEN [out |-> rows, error |-> "none"]
  ELSE LET pushed == PushRows(rows, 1, qo.whoosh_rank[1], <<>>)
       IN  IF pushed.error # "none" THEN [out |-> <<>>, error |-> pushed.error]
           ELSE [out |-> PopRows(pushed.heap), error |-> "none"]

\* ------------------------------------------------------- commit handler
\* change[1] in ('update', 'insert')
IsUpdate(change) == change[2] \in {"update", "insert"}

\* bytype that keeps the changes of every model, searchable or not
ByTypeAll(change_list) ==
  LET retained == change_list
  IN  [m \in {retained[i][1].class : i \in DOMAIN retained} |->
         LET mine == SelectSeq(retained, LAMBDA c : c[1].class = m)
         IN  [i \in DOMAIN mine |-> <<IsUpdate(mine[i]), mine[i][1]>>]]

\* bytype: model name -> the (update, record) pairs of that model, in input order
ByType(change_list) ==
  LET retained == SelectSeq(change_list, LAMBDA c : HasSearchable(c[1].class))
  IN  [m \in {retained[i][1].class : i \in DOMAIN retained} |->
         LET mine == SelectSeq(retained, LAMBDA c : c[1].class = m)
         IN  [i \in DOMAIN mine |-> <<IsUpdate(mine[i]), mine[i][1]>>]]

\* the loop over `searchable` with the AttributeError swallowed: a key the
\* record lacks is left out of the document
RECURSIVE AttrsLoopSkip(_, _, _, _)
AttrsLoopSkip(v, searchable, i, attrs) ==
  IF i > Len(searchable) THEN [attrs |-> attrs, missing |-> "none"]
  ELSE LET key == searchable[i]
       IN  AttrsLoopSkip(v, searchable, i + 1,
                         IF key \notin DOMAIN v.attrs THEN attrs
                         ELSE DictSet(attrs, key,
                                      Unicode(v.attrs[key], ColumnType(v.class, key))))

\* the attrs dict of one upsert, or the key whose getattr fails
RECURSIVE AttrsLoop(_, _, _, _)
AttrsLoop(v, searchable, i, attrs) ==
  IF i > Len(searchable) THEN [attrs |-> attrs, missing |-> "none"]
  ELSE LET key == searchable[i]
       IN  IF key \notin DOMAIN v.attrs
             THEN [attrs |-> attrs, missing |-> key]
             ELSE AttrsLoop(v, searchable, i + 1,
                            DictSet(attrs, key,
                                    Unicode(v.attrs[key], ColumnType(v.class, key))))

\* the body of the with-block: the values of one model applied to its writer
RECURSIVE WriteValues(_, _, _, _, _, _)
WriteValues(w, ix, values, i, primary_field, searchable) ==
  IF i > Len(values) \/ w.error # "none" THEN w
  ELSE LET update == values[i][1]
           v == values[i][2]
           pk == Unicode(v.attrs[primary_field], ColumnType(v.class, primary_field))
           a == AttrsLoop(v, searchable, 1, EmptyDict)
           w1 == IF update
                   THEN IF a.missing # "none"
                          THEN [w EXCEPT !.error = "AttributeError"]
                          ELSE UpdateDocument(w, ix, DictSet(a.attrs, primary_field, pk))
                   ELSE DeleteByTerm(w, ix, primary_field, pk)
       IN  WriteValues(w1, ix, values, i + 1, primary_field, searchable)

\* one pass of the loop with a writer that is committed even when the block
\* raises (try/finally: writer.commit() in place of the with-block)
ApplyTypeCommitOnError(st, m, values) ==
  LET st1 == WhooshIndex(st, values[1][2].class)
      ix == st1.disk[m]
      primary_field == st1.pure_whoosh[m].primary_key_name
      w == WriteValues(NewWriter, ix, values, 1, primary_field, Searchable(m))
  IN  IF w.error # "none"
        THEN [st1 EXCEPT !.disk[m] = WriterCommit(w, ix),
                         !.raised = w.error, !.failed = m]
        ELSE [st1 EXCEPT !.disk[m] = WriterCommit(w, ix),
                         !.committed = Append(@, m)]

\* one pass of the loop over bytype: index lookup, then the writer's with-block
\* (commit when the block ends, cancel when it raises)
ApplyType(st, m, values) ==
  LET st1 == WhooshIndex(st, values[1][2].class)
      ix == st1.disk[m]
      primary_field == st1.pure_whoosh[m].primary_key_name
      w == WriteValues(NewWriter, ix, values, 1, primary_field, Searchable(m))
  IN  IF w.error # "none"
        THEN [st1 EXCEPT !.raised = w.error, !.failed = m]
        ELSE [st1 EXCEPT !.disk[m] = WriterCommit(w, ix),
                         !.committed = Append(@, m)]

\* the loop over bytype as one transaction: when a pass raises, the state the
\* handler started from is put back
RECURSIVE TypeLoopAtomic(_, _, _, _)
TypeLoopAtomic(st, bytype, order, i) ==
  IF i > Len(order) THEN st
  ELSE LET st1 == ApplyType(st, order[i], bytype[order[i]])
       IN  IF st1.raised # "none"
             THEN [st1 EXCEPT !.disk = disk, !.committed = <<>>]
             ELSE TypeLoopAtomic(st1, bytype, order, i + 1)

\* for model, values in bytype.iteritems(), in the dict's iteration order
RECURSIVE TypeLoop(_, _, _, _)
TypeLoop(st, bytype, order, i) ==
  IF i > Len(order) \/ st.raised # "none" THEN st
  ELSE TypeLoop(ApplyType(st, order[i], bytype[order[i]]), bytype, order, i + 1)

\* _after_flush(app, changes), with bytype iterated in `order`: the state
\* it leaves and how it ended
AfterFlush(change_list, order) ==
  TypeLoop([whoosh_indexes |-> whoosh_indexes, disk |-> disk, query |-> query,
            pure_whoosh |-> pure_whoosh, calls |-> calls,
            raised |-> "none", failed |-> "none", committed |-> <<>>],
           ByType(change_list), order, 1)

\* the session records one more change of the transaction being committed
\* (the first change of a transaction starts a new list)
Record ==
  \E c \in ChangeSet :
    /\ flush.done \/ Len(changes) < MaxBatch
    /\ changes' = IF flush.done THEN <<c>> ELSE Append(changes, c)
    /\ flush' = NoFlush
    /\ UNCHANGED <<registry, caller, ret, workers>>

\* models_committed fires the handler with the commit's changes
ModelsCommitted ==
  /\ ~flush.done
  /\ changes # <<>>
  /\ \E order \in Perms(DOMAIN ByType(changes)) :
       LET st == AfterFlush(changes, order)
       IN  /\ whoosh_indexes' = st.whoosh_indexes
           /\ disk' = st.disk
           /\ query' = st.query
           /\ pure_whoosh' = st.pure_whoosh
           /\ calls' = st.calls
           /\ flush' = [done |-> TRUE, raised |-> st.raised, failed |-> st.failed,
                        committed |-> st.committed, order |-> order]
  /\ UNCHANGED <<changes, caller, ret, workers>>

\* ---------------------------------------------------------------- system
Threads == 1..MaxThreads

\* a thread that is not running the handler
IdleThread == [pc |-> "idle", bytype |-> EmptyDict, order |-> <<>>, at |-> 1,
               found |-> FALSE, indx |-> None, w |-> NewWriter,
               opened |-> <<>>, raised |-> "none"]

Init ==
  /\ whoosh_indexes = EmptyDict
  /\ disk = [m \in Models |-> [exists |-> FALSE, schema |-> EmptyDict, docs |-> EmptyBag]]
  /\ query = [m \in Models |-> "BaseQuery"]
  /\ pure_whoosh = EmptyDict
  /\ calls = [m \in Models |-> NoCalls]
  /\ changes = <<>>
  /\ flush = NoFlush
  /\ table = [m \in Models |-> {}]
  /\ q = None
  /\ search = None
  /\ it = None
  /\ ret = None
  /\ threads = [t \in Threads |-> IdleThread]
  /\ locks = [m \in Models |-> 0]

Next == Record \/ ModelsCommitted

Spec == Init /\ [][Next]_vars

\* ------------------------------------------------ the caller's actions
\* the texts a caller searches for
Queries == {<<w>> : w \in Words} \cup {<<"red", "green">>}

\* the changes a commit carries while queries are being run
QueryChanges ==
  {<<[class |-> "Article",
      attrs |-> [id |-> pk,
                 title |-> IF pk = 2 THEN <<"red", "green">> ELSE <<"red">>]],
     "insert">> : pk \in 1..MaxRow}
    \cup {<<[class |-> "Article", attrs |-> [id |-> 1, title |-> <<"green">>]], "insert">>}
    \cup {<<[class |-> "Article", attrs |-> [id |-> pk]], "delete">> : pk \in 1..MaxRow}

QueryBatches == UNION {[1..n -> QueryChanges] : n \in 1..MaxBatch}

\* a whole commit: the handler run on the commit's changes, between the
\* caller's queries (a query object, once built, never reads the index again)
Commit ==
  /\ q = None
  /\ \E change_list \in QueryBatches :
       \E order \in Perms(DOMAIN ByType(change_list)) :
         LET st == AfterFlush(change_list, order)
         IN  /\ whoosh_indexes' = st.whoosh_indexes
             /\ disk' = st.disk
             /\ query' = st.query
             /\ pure_whoosh' = st.pure_whoosh
             /\ calls' = st.calls
  /\ UNCHANGED <<commit, caller, ret, workers>>

\* the relational store gains or loses a row
Relational ==
  \E pk \in 1..MaxRow :
    /\ table' = [table EXCEPT !["Article"] =
                   IF pk \in @ THEN @ \ {pk} ELSE @ \cup {pk}]
    /\ it' = None
    /\ UNCHANGED <<registry, commit, q, search, ret, workers>>

\* the caller takes Model.query
ModelQuery ==
  /\ q' = <<ModelQueryObject("Article")>>
  /\ q' # q
  /\ search' = None
  /\ it' = None
  /\ UNCHANGED <<registry, commit, table, ret, workers>>

\* the caller drops the query it holds
Drop ==
  /\ q # None
  /\ q' = None
  /\ search' = None
  /\ it' = None
  /\ UNCHANGED <<registry, commit, table, ret, workers>>

\* the caller chains a filter on the query it holds
Filter ==
  /\ q # None
  /\ \E c \in CallerFilters :
       /\ c \notin q[1].criterion
       /\ q' = <<FilterQuery(q[1], c)>>
  /\ search' = None
  /\ it' = None
  /\ UNCHANGED <<registry, commit, table, ret, workers>>

Limits == {None, <<1>>}

\* the caller runs whoosh_search on the proxy it holds (one text search per
\* chain of query calls)
WhooshSearch ==
  /\ q # None
  /\ q[1].class = "_QueryProxy"
  /\ q[1].criterion \subseteq CallerFilters
  /\ \E words \in Queries, limit \in Limits, or_ \in BOOLEAN :
       \E results \in SearcherCall(pure_whoosh[q[1].model], disk[q[1].model],
                                   words, limit, None, or_) :
         /\ q' = <<WhooshSearchResult(q[1], results)>>
         /\ search' = <<[base |-> q[1], results |-> results]>>
  /\ it' = None
  /\ UNCHANGED <<registry, commit, table, ret, workers>>

\* the caller iterates the query it holds; the store produces the matching
\* rows in any order
Iterate ==
  /\ q # None
  /\ it = None
  /\ \E rows \in Perms(Rows(q[1])) :
       LET r == IF q[1].class = "_QueryProxy" THEN ProxyIter(q[1], rows)
                ELSE [out |-> rows, error |-> "none"]
       IN  it' = <<[rows |-> rows, out |-> r.out, error |-> r.error]>>
  /\ UNCHANGED <<registry, commit, table, q, search, ret, workers>>

QueryNext == Commit \/ Relational \/ ModelQuery \/ Drop \/ Filter \/ WhooshSearch \/ Iterate

QuerySpec == Init /\ [][QueryNext]_vars

\* the changes of a commit that lands between a search and the iteration of
\* its result: the documents the held hits refer to are taken off the index
\* (what the same commit does to the rows is Relational)
BetweenChanges == {c \in QueryChanges : c[2] = "delete"}

\* a commit lands while the caller holds the query a text search returned
\* and has not iterated it yet
CommitBetween ==
  /\ search # None /\ it = None
  /\ \E c \in BetweenChanges :
       LET st == AfterFlush(<<c>>, <<c[1].class>>)
       IN  /\ whoosh_indexes' = st.whoosh_indexes
           /\ disk' = st.disk
           /\ query' = st.query
           /\ pure_whoosh' = st.pure_whoosh
           /\ calls' = st.calls
  /\ UNCHANGED <<commit, caller, ret, workers>>

StaleNext == QueryNext \/ CommitBetween

StaleSpec == Init /\ [][StaleNext]_vars

\* ------------------------------------------- the registry, on its own
\* the state _whoosh_index works on
RegistryState ==
  [whoosh_indexes |-> whoosh_indexes, disk |-> disk, query |-> query,
   pure_whoosh |-> pure_whoosh, calls |-> calls]

\* _whoosh_index(app, model) is called for a searchable model, one call
\* after another
Lookup ==
  \E m \in {n \in Models : HasSearchable(n)} :
    LET st == WhooshIndex(RegistryState, m)
    IN  /\ whoosh_indexes' = st.whoosh_indexes
        /\ disk' = st.disk
        /\ query' = st.query
        /\ pure_whoosh' = st.pure_whoosh
        /\ calls' = st.calls
        /\ ret' = <<[model |-> m, indx |-> st.whoosh_indexes[m],
                     cached |-> m \in DOMAIN whoosh_indexes]>>
        /\ UNCHANGED <<commit, caller, workers>>

\* the process ends and another starts: the index directories stay, the
\* application object and the model classes are new
Restart ==
  /\ whoosh_indexes # EmptyDict
  /\ whoosh_indexes' = EmptyDict
  /\ query' = [m \in Models |-> "BaseQuery"]
  /\ pure_whoosh' = EmptyDict
  /\ calls' = [m \in Models |-> NoCalls]
  /\ ret' = None
  /\ UNCHANGED <<disk, commit, caller, workers>>

RegistryNext == Lookup \/ Restart

RegistrySpec == Init /\ [][RegistryNext]_vars

\* ------------------------------- commit notifications in several threads
\* the changes the commits of concurrent threads carry
ThreadChanges ==
  {<<[class |-> "Article", attrs |-> [id |-> 1, title |-> <<"red">>]], "insert">>,
   <<[class |-> "Note", attrs |-> [id |-> 1, body |-> <<"red">>]], "insert">>}

ThreadBatches == UNION {[1..n -> ThreadChanges] : n \in 1..MaxBatch}

\* the model whose batch thread t is working on
Current(t) == threads[t].order[threads[t].at]

\* thread t enters _after_flush with the changes of its commit: bytype is
\* built and its iteration order fixed
Notify(t) ==
  /\ threads[t].pc = "idle"
  /\ \E batch \in ThreadBatches : \E order \in Perms(DOMAIN ByType(batch)) :
       threads' = [threads EXCEPT ![t] =
                     [IdleThread EXCEPT !.pc = "get", !.bytype = ByType(batch),
                                        !.order = order]]
  /\ UNCHANGED <<registry, locks, commit, caller, ret>>

\* _whoosh_index, registry lookup: the cached handle is returned, or the
\* thread goes on to make one
Get(t) ==
  /\ threads[t].pc = "get"
  /\ threads' = [threads EXCEPT ![t] =
                   IF Current(t) \in DOMAIN whoosh_indexes
                     THEN [@ EXCEPT !.pc = "writer"]
                     ELSE [@ EXCEPT !.pc = "exists"]]
  /\ UNCHANGED <<registry, locks, commit, caller, ret>>

\* _whoosh_index: the schema is derived and whoosh.index.exists_in(wi) read
Exists(t) ==
  /\ threads[t].pc = "exists"
  /\ threads' = [threads EXCEPT ![t].pc = "open",
                                ![t].found = disk[Current(t)].exists]
  /\ UNCHANGED <<registry, locks, commit, caller, ret>>

\* _whoosh_index: open_dir or create_in, by what exists_in answered
Open(t) ==
  /\ threads[t].pc = "open"
  /\ LET m == Current(t)
         oc == OpenOrCreate(disk[m], m, GetWhooshSchemaAndPrimary(m),
                            threads[t].found, calls[m])
     IN  /\ disk' = [disk EXCEPT ![m] = oc.dir]
         /\ calls' = [calls EXCEPT ![m] = oc.count]
         /\ threads' = [threads EXCEPT ![t].pc = "cache", ![t].indx = <<oc.indx>>]
  /\ UNCHANGED <<whoosh_indexes, query, pure_whoosh, locks, commit, caller, ret>>

\* _whoosh_index: the handle is put in the registry
Cache(t) ==
  /\ threads[t].pc = "cache"
  /\ LET st == CacheIndex(RegistryState, Current(t), threads[t].indx[1])
     IN  /\ whoosh_indexes' = st.whoosh_indexes
         /\ calls' = st.calls
  /\ threads' = [threads EXCEPT ![t].pc = "install"]
  /\ UNCHANGED <<disk, query, pure_whoosh, locks, commit, caller, ret>>

\* _whoosh_index: searcher, query proxy and pure_whoosh are bound to the class
Install(t) ==
  /\ threads[t].pc = "install"
  /\ LET st == InstallProxy(RegistryState, Current(t),
                            GetWhooshSchemaAndPrimary(Current(t)).primary)
     IN  /\ query' = st.query
         /\ pure_whoosh' = st.pure_whoosh
         /\ calls' = st.calls
  /\ threads' = [threads EXCEPT ![t].pc = "writer", ![t].found = FALSE,
                                ![t].indx = None]
  /\ UNCHANGED <<whoosh_indexes, disk, locks, commit, caller, ret>>

\* index.writer() that takes the write lock whoever holds it
OpenWriterUnlocked(t) ==
  /\ threads[t].pc = "writer"
  /\ locks' = [locks EXCEPT ![Current(t)] = t]
  /\ threads' = [threads EXCEPT ![t].pc = "block", ![t].w = NewWriter,
                                ![t].opened = Append(@, Current(t))]
  /\ UNCHANGED <<registry, commit, caller, ret>>

\* with index.writer(): the writer takes the write lock of the index
\* directory, or raises LockError when another writer holds it
OpenWriter(t) ==
  /\ threads[t].pc = "writer"
  /\ IF locks[Current(t)] = 0
       THEN /\ locks' = [locks EXCEPT ![Current(t)] = t]
            /\ threads' = [threads EXCEPT ![t].pc = "block", ![t].w = NewWriter,
                                          ![t].opened = Append(@, Current(t))]
       ELSE /\ locks' = locks
            /\ threads' = [threads EXCEPT ![t] =
                             [IdleThread EXCEPT !.raised = "LockError"]]
  /\ UNCHANGED <<registry, commit, caller, ret>>

\* the body of the with-block; reading pure_whoosh off the class fails when
\* it is not bound yet
Block(t) ==
  /\ threads[t].pc = "block"
  /\ LET m == Current(t)
         w == IF m \notin DOMAIN pure_whoosh
                THEN [NewWriter EXCEPT !.error = "AttributeError"]
                ELSE WriteValues(NewWriter, disk[m], threads[t].bytype[m], 1,
                                 pure_whoosh[m].primary_key_name, Searchable(m))
     IN  threads' = [threads EXCEPT ![t].pc = "exit", ![t].w = w]
  /\ UNCHANGED <<registry, locks, commit, caller, ret>>

\* the with-block is left: commit, or cancel and re-raise; the lock is
\* released; the loop goes to the next model or the handler returns
Exit(t) ==
  /\ threads[t].pc = "exit"
  /\ LET m == Current(t)
         w == threads[t].w
     IN  /\ locks' = [locks EXCEPT ![m] = 0]
         /\ IF w.error # "none"
              THEN /\ disk' = disk
                   /\ threads' = [threads EXCEPT ![t] =
                                    [IdleThread EXCEPT !.raised = w.error]]
              ELSE /\ disk' = [disk EXCEPT ![m] = WriterCommit(w, @)]
                   /\ threads' = [threads EXCEPT ![t] =
                                    IF threads[t].at = Len(threads[t].order)
                                      THEN IdleThread
                                      ELSE [@ EXCEPT !.pc = "get", !.at = @ + 1,
                                                     !.w = NewWriter]]
  /\ UNCHANGED <<whoosh_indexes, query, pure_whoosh, calls, commit, caller, ret>>

ThreadNext ==
  \E t \in Threads :
    \/ Notify(t) \/ Get(t) \/ Exists(t) \/ Open(t) \/ Cache(t) \/ Install(t)
    \/ OpenWriter(t) \/ Block(t) \/ Exit(t)

ThreadSpec == Init /\ [][ThreadNext]_vars

\* ------------------------------------- commits of other column types
\* the changes a commit carries for a model with a searchable integer column
TypeChanges ==
  {<<[class |-> "Counter", attrs |-> [id |-> 1, title |-> t, views |-> n]], op>> :
     t \in Texts, n \in 1..MaxPk, op \in {"insert", "update"}}
    \cup {<<[class |-> "Counter", attrs |-> [id |-> 1]], "delete">>}
    \cup {<<[class |-> "Article", attrs |-> [id |-> pk, title |-> <<"red">>]], "insert">> :
            pk \in 1..MaxPk}
    \cup {<<[class |-> "Article", attrs |-> [id |-> pk]], "delete">> : pk \in 1..MaxPk}

\* the session records one more change of the transaction being committed
RecordTyped ==
  \E c \in TypeChanges :
    /\ flush.done \/ Len(changes) < MaxBatch
    /\ changes' = IF flush.done THEN <<c>> ELSE Append(changes, c)
    /\ flush' = NoFlush
    /\ UNCHANGED <<registry, caller, ret, workers>>

TypesNext == RecordTyped \/ ModelsCommitted

TypesSpec == Init /\ [][TypesNext]_vars

\* ------------------------------------------------- the commit, observed
\* the primary-key string of a record
KeyOf(r) == Unicode(r.attrs[PrimaryColumn(r.class)],
                    ColumnType(r.class, PrimaryColumn(r.class)))

Keys(m) == {ToString(pk) : pk \in Pks(m)}

\* positions in `changes` of the changes to key k of model m
ChangesTo(m, k) == {i \in DOMAIN changes : changes[i][1].class = m /\ KeyOf(changes[i][1]) = k}

LastChangeTo(m, k) == changes[CHOOSE i \in ChangesTo(m, k) : \A j \in ChangesTo(m, k) : j <= i]

\* the committed documents of model m whose primary-key field is k
DocsOf(m, k) == {d \in BagToSet(disk[m].docs) : d[PrimaryColumn(m)] = k}

\* how many documents of model m carry key k
DocCount(m, k) ==
  LET RECURSIVE Sum(_)
      Sum(S) == IF S = {} THEN 0
                ELSE LET d == CHOOSE x \in S : TRUE IN disk[m].docs[d] + Sum(S \ {d})
  IN  Sum(DocsOf(m, k))

\* the primary keys Model.pure_whoosh(words) returns, all fields, no limit
SearchKeys(m, words, or_) ==
  IF m \notin DOMAIN pure_whoosh THEN {}
  ELSE {h[pure_whoosh[m].primary_key_name] :
          h \in UNION {Range(res.hits) :
                 res \in SearcherCall(pure_whoosh[m], disk[m], words, None, None, or_)}}

\* the handler ran to its end on `changes`
Handled == flush.done /\ flush.raised = "none"

SearchableModels == {m \in Models : HasSearchable(m)}

\* ---------------------------------------------------------------- claims

\* C2: after a commit notification that the handler ran to its end and whose
\* last change to key k of a searchable model is a delete, no search of that
\* model returns k.
C2_DeletedNeverReturned ==
  Handled =>
    \A m \in SearchableModels : \A k \in Keys(m) :
      (ChangesTo(m, k) # {} /\ ~IsUpdate(LastChangeTo(m, k))) =>
        \A words \in Queries : \A or_ \in BOOLEAN : k \notin SearchKeys(m, words, or_)

\* C3: after a commit notification that the handler ran to its end and whose
\* last change to key k is an update, a one-word search returns k exactly when
\* the word is a term of the updated record's text: terms of older values no
\* longer find it, terms of the current values do.
C3_OnlyCurrentValues ==
  Handled =>
    \A m \in SearchableModels : \A k \in Keys(m) :
      (ChangesTo(m, k) # {} /\ LastChangeTo(m, k)[2] = "update") =>
        LET r == LastChangeTo(m, k)[1]
            current == UNION {Analyze(r.attrs[key]) : key \in Range(Searchable(m))}
        IN  \A w \in Words : (k \in SearchKeys(m, <<w>>, FALSE)) <=> (w \in current)

\* C4: every index holds at most one document per primary-key string.
C4_OneDocumentPerKey ==
  \A m \in Models : \A k \in Keys(m) : DocCount(m, k) <= 1

\* the last iteration was of the proxy the caller holds
Iterated == q # None /\ it # None /\ q[1].class = "_QueryProxy"

\* C1: iterating a proxy with a rank map yields the rows the store returned,
\* each once, in non-decreasing rank order, whatever order the store produced
\* them in, and the rank lookup raises nothing.
C1_RankOrder ==
  (Iterated /\ q[1].whoosh_rank # None) =>
    LET out == it[1].out
        rank(pk) == q[1].whoosh_rank[1][Unicode(pk, "Integer")]
    IN  /\ it[1].error = "none"
        /\ Len(out) = Len(it[1].rows)
        /\ \A pk \in Range(it[1].rows) : Count(out, pk) = 1
        /\ \A i, j \in DOMAIN out : i < j => rank(out[i]) <= rank(out[j])

\* C1 witness: three rows, produced by the store in an order that is neither
\* the order yielded nor its reverse, and yielded in an order that is not the
\* order of their primary keys.
C1_Witness ==
  /\ Iterated /\ q[1].whoosh_rank # None
  /\ Len(it[1].rows) = 3
  /\ it[1].out # it[1].rows
  /\ it[1].out # <<it[1].rows[3], it[1].rows[2], it[1].rows[1]>>
  /\ it[1].out # <<1, 2, 3>>

\* the search whose result the caller holds
Searched == search # None /\ q # None

\* C5: when the Searcher returned no hit, the query whoosh_search returned has
\* no rank map, matches no row of the store, and its iteration yields nothing
\* and raises nothing.
C5_NoHitsNoRows ==
  (Searched /\ search[1].results.length = 0) =>
    /\ q[1].whoosh_rank = None
    /\ Rows(q[1]) = {}
    /\ it # None => (it[1].out = <<>> /\ it[1].error = "none")

\* C5 witness: no hit, the store holds rows that pass the filters the query
\* had, the query had a filter, and the returned query was iterated.
C5_Witness ==
  /\ Searched /\ search[1].results.length = 0
  /\ search[1].base.criterion # {}
  /\ Rows(search[1].base) # {}
  /\ it # None

\* the keys of the hit list of the last search
HitKeys == {h[PrimaryColumn(search[1].base.model)] : h \in Range(search[1].results.hits)}

\* the rows of the store that pass the filters the searched query had and
\* whose key is among the hits
RowsHit == {pk \in Rows(search[1].base) : Unicode(pk, "Integer") \in HitKeys}

\* C6: when the Searcher returned hits, the query whoosh_search returned
\* matches exactly the rows that pass the filters the query had and whose key
\* is a hit, its iteration yields exactly those rows, and its rank map is
\* defined on the hit keys and gives each a 0-based position at which the key
\* stands in the hit list.
C6_HitsFilterAndRank ==
  (Searched /\ search[1].results.length > 0) =>
    /\ q[1].whoosh_rank # None
    /\ DOMAIN q[1].whoosh_rank[1] = HitKeys
    /\ \A k \in HitKeys :
         LET n == q[1].whoosh_rank[1][k]
         IN  /\ n \in 0..(Len(search[1].results.hits) - 1)
             /\ search[1].results.hits[n + 1][PrimaryColumn(search[1].base.model)] = k
    /\ Rows(q[1]) = RowsHit
    /\ it # None => (Range(it[1].out) = RowsHit /\ it[1].error = "none")

\* C6 witness: two hit keys; the store holds a row that is hit but fails the
\* filter the query had, a row that passes it but is no hit, and a row that
\* is yielded.
C6_Witness ==
  /\ Searched /\ search[1].results.length > 0
  /\ Cardinality(HitKeys) >= 2
  /\ search[1].base.criterion # {}
  /\ \E pk \in table["Article"] :
       Unicode(pk, "Integer") \in HitKeys /\ pk \notin Rows(search[1].base)
  /\ \E pk \in Rows(search[1].base) : Unicode(pk, "Integer") \notin HitKeys
  /\ it # None /\ it[1].out # <<>>

\* C9: iterating a proxy with no rank map yields the rows in the order the
\* store produced them, as the plain query does.
C9_PassThrough ==
  (Iterated /\ q[1].whoosh_rank = None) =>
    (it[1].out = it[1].rows /\ it[1].error = "none")

\* C9 witness: a proxy without rank map, with a caller's filter, iterated
\* over two rows that the store produced in descending key order.
C9_Witness ==
  /\ Iterated /\ q[1].whoosh_rank = None
  /\ q[1].criterion # {}
  /\ Len(it[1].rows) = 2
  /\ it[1].rows[1] > it[1].rows[2]

\* C7: when the batch of a model fails, the documents of that model's index
\* are the ones it held before the handler ran.
C7_AllOrNothing ==
  [][(~flush.done /\ flush'.done /\ flush'.failed # "none") =>
       disk'[flush'.failed].docs = disk[flush'.failed].docs]_vars

\* C7 witness: the batch of Article failed after a delete of a key whose
\* document is still in the index.
C7_Witness ==
  /\ flush.done /\ flush.failed = "Article"
  /\ \E i, j \in DOMAIN changes :
       /\ i < j
       /\ changes[i][1].class = "Article" /\ changes[j][1].class = "Article"
       /\ changes[i][2] = "delete"
       /\ DocsOf("Article", KeyOf(changes[i][1])) # {}
       /\ changes[j][2] = "insert" /\ "title" \notin DOMAIN changes[j][1].attrs

\* a change that upserts a record lacking a searchable attribute of its model
LacksSearchable(c) ==
  /\ HasSearchable(c[1].class)
  /\ IsUpdate(c)
  /\ \E key \in Range(Searchable(c[1].class)) : key \notin DOMAIN c[1].attrs

\* C8: when the commit carries an upsert of a record that lacks a searchable
\* attribute, the handler raises, and the batch of that record's model is not
\* committed.
C8_MissingFieldRaises ==
  flush.done =>
    \A i \in DOMAIN changes :
      LacksSearchable(changes[i]) =>
        /\ flush.raised # "none"
        /\ changes[i][1].class \notin Range(flush.committed)

\* C8 witness: the record that lacks the attribute comes after a complete
\* upsert of the same model, and the handler raised AttributeError there.
C8_Witness ==
  /\ flush.done /\ flush.raised = "AttributeError"
  /\ Len(changes) = 2
  /\ changes[1][1].class = changes[2][1].class
  /\ IsUpdate(changes[1]) /\ ~LacksSearchable(changes[1])
  /\ LacksSearchable(changes[2])
  /\ flush.failed = changes[2][1].class

\* C10: the changes of a model are kept in input order, and when the handler
\* ran to its end a key with two or more changes in the commit has a document
\* exactly when the last of them is an insert or update.
C10_LastChangeWins ==
  /\ \A m \in DOMAIN ByType(changes) :
       ByType(changes)[m] =
         LET mine == SelectSeq(changes, LAMBDA c : c[1].class = m)
         IN  [i \in DOMAIN mine |-> <<IsUpdate(mine[i]), mine[i][1]>>]
  /\ Handled =>
       \A m \in SearchableModels : \A k \in Keys(m) :
         Cardinality(ChangesTo(m, k)) >= 2 =>
           (DocsOf(m, k) # {} <=> IsUpdate(LastChangeTo(m, k)))

\* the two-term queries a caller may pass
TwoTerm == {words \in Queries : Len(words) = 2 /\ words[1] # words[2]}

\* C11: on every state of the index and for every query of two terms, each
\* key the Searcher returns when every term must match (or_ = False) is among
\* the keys it returns when any term may match (or_ = True), with the same
\* fields and no limit.
C11_AndWithinOr ==
  \A m \in DOMAIN pure_whoosh : \A words \in TwoTerm :
    SearchKeys(m, words, FALSE) \subseteq SearchKeys(m, words, TRUE)

\* C11 witness: the index holds a document with both terms and documents
\* with one of them, so the AND result is not empty and the OR result is
\* strictly larger.
C11_Witness ==
  \E m \in DOMAIN pure_whoosh : \E words \in TwoTerm :
    /\ SearchKeys(m, words, FALSE) # {}
    /\ SearchKeys(m, words, FALSE) # SearchKeys(m, words, TRUE)
    /\ Cardinality(SearchKeys(m, words, TRUE)) = MaxRow

\* C12: after any sequence of _whoosh_index calls made one after another,
\* the registry holds one handle per type name it has an entry for: the
\* first call for a type opened or created its index once, cached the handle
\* once and installed the query proxy once; every later call returned that
\* same handle and opened, created and installed nothing.
C12_OneHandlePerType ==
  /\ \A m \in Models :
       IF m \in DOMAIN whoosh_indexes
         THEN /\ whoosh_indexes[m] = [dir |-> m, serial |-> 1]
              /\ calls[m].opened + calls[m].created = 1
              /\ calls[m].cached = 1
              /\ calls[m].installed = 1
         ELSE calls[m] = NoCalls
  /\ ret # None => ret[1].indx = whoosh_indexes[ret[1].model]

\* C12 witness: a call found the handle of a type cached, the handle an
\* earlier call made by opening the index a previous process had created.
C12_Witness ==
  /\ ret # None /\ ret[1].cached
  /\ calls[ret[1].model].opened = 1
  /\ Cardinality(DOMAIN whoosh_indexes) >= 2

\* the searchable textual columns of model m that are not its primary key
TextColumns(m) ==
  {c.name : c \in {x \in Range(Columns(m)) :
                     /\ x.name \in Range(Searchable(m))
                     /\ x.type \in TextualTypes
                     /\ ~x.primary_key}}

\* C14: the schema of every type's index has exactly one identifier field,
\* the type's primary key, and one analyzed-text field for every searchable
\* textual column that is not the primary key.
C14_OneIdentifierField ==
  \A m \in DOMAIN whoosh_indexes :
    /\ {f \in DOMAIN disk[m].schema : disk[m].schema[f] = "ID"} = {PrimaryColumn(m)}
    /\ {f \in DOMAIN disk[m].schema : disk[m].schema[f] = "TEXT"} = TextColumns(m)

\* the change carries every column of its record, or is a delete
Complete(c) == c[2] = "delete" \/ ~LacksSearchable(c)

\* C15: every document in an index has exactly the fields of the index
\* schema, and a commit of complete records ends without an error, also for
\* a type that declares a non-textual column searchable.
C15_DocumentHasSchemaFields ==
  /\ \A m \in DOMAIN whoosh_indexes : \A d \in BagToSet(disk[m].docs) :
       DOMAIN d = DOMAIN disk[m].schema
  /\ (flush.done /\ \A i \in DOMAIN changes : Complete(changes[i]))
       => flush.raised = "none"

\* C13: when threads make the first access to a type's index at the same
\* time, the index is opened or created once, one handle is cached and the
\* query proxy is installed once, in every interleaving.
C13_FirstAccessOnce ==
  \A m \in Models :
    /\ calls[m].opened + calls[m].created <= 1
    /\ calls[m].cached <= 1
    /\ calls[m].installed <= 1

\* thread t holds an open writer
Holding(t) == threads[t].pc \in {"block", "exit"}

\* C17: at every moment at most one writer is open on the index of a type;
\* a thread holds at most one writer, opens the writers of its commit one
\* type after another in the order of the loop, one for each type it has
\* reached, so one for every type with changes when the handler returns
\* without raising.
C17_OneWriterPerIndex ==
  /\ \A m \in Models :
       /\ Cardinality({t \in Threads : Holding(t) /\ Current(t) = m}) <= 1
       /\ locks[m] # 0 <=> \E t \in Threads : Holding(t) /\ Current(t) = m
  /\ \A t \in Threads :
       /\ Cardinality({m \in Models : locks[m] = t}) <= 1
       /\ threads[t].opened =
            SubSeq(threads[t].order, 1,
                   IF Holding(t) THEN threads[t].at ELSE threads[t].at - 1)

\* C17 witness: one thread holds the writer of a type's index, the second
\* writer of its commit, while another thread asks for a writer on the same
\* index.
C17_Witness ==
  \E t, u \in Threads :
    /\ Holding(t) /\ Len(threads[t].opened) = 2
    /\ threads[u].pc = "writer" /\ Current(u) = Current(t)

\* the changes of the commit that are of searchable models
OfSearchable == SelectSeq(changes, LAMBDA c : HasSearchable(c[1].class))

\* C16: a commit notification leaves a model without searchable attributes
\* with no registry entry, no index, its query object and its class as they
\* were, and does to every index exactly what it would do if the commit
\* carried only its changes of searchable models; a commit of such changes
\* only changes nothing and raises nothing.
C16_NonSearchableDropped ==
  [][(~flush.done /\ flush'.done) =>
       /\ \A m \in Models \ SearchableModels :
            /\ m \notin DOMAIN whoosh_indexes'
            /\ m \notin DOMAIN pure_whoosh'
            /\ disk'[m] = disk[m] /\ ~disk'[m].exists
            /\ query'[m] = query[m]
            /\ calls'[m] = calls[m]
       /\ LET st == AfterFlush(OfSearchable, flush'.order)
          IN  /\ whoosh_indexes' = st.whoosh_indexes
              /\ disk' = st.disk
              /\ query' = st.query
              /\ pure_whoosh' = st.pure_whoosh
              /\ flush'.raised = st.raised
       /\ OfSearchable = <<>> => (UNCHANGED registry /\ flush'.raised = "none")
  ]_vars

\* C16 witness: a commit carried a change of the model without searchable
\* attributes together with an insert of a searchable one, which was indexed.
C16_Witness ==
  /\ flush.done /\ Len(changes) = 2
  /\ changes[1][1].class = "Plain"
  /\ changes[2][1].class = "Article"
  /\ flush.committed = <<"Article">>
  /\ disk["Article"].docs # EmptyBag
  /\ query["Plain"] = "BaseQuery"

\* the changes of the commit that are of model m
ChangesOfModel(m) == SelectSeq(changes, LAMBDA c : c[1].class = m)

\* C19: when the batch of one type fails, the types the loop processed
\* before it are committed, their indexes holding what a commit of their
\* changes alone would have left, and the types after it in the loop are not
\* touched: no document changed, no index opened or created.
C19_NoAtomicityAcrossTypes ==
  [][(~flush.done /\ flush'.done /\ flush'.failed # "none") =>
       LET order == flush'.order
           k == CHOOSE i \in DOMAIN order : order[i] = flush'.failed
       IN  /\ flush'.committed = SubSeq(order, 1, k - 1)
           /\ \A i \in 1..(k - 1) :
                disk'[order[i]] =
                  AfterFlush(ChangesOfModel(order[i]), <<order[i]>>).disk[order[i]]
           /\ \A i \in (k + 1)..Len(order) :
                /\ disk'[order[i]] = disk[order[i]]
                /\ calls'[order[i]] = calls[order[i]]
                /\ order[i] \in DOMAIN whoosh_indexes' <=> order[i] \in DOMAIN whoosh_indexes
  ]_vars

\* C19 witness: the batch of Article failed after the batch of Note had been
\* committed, and the index of Note holds the document of that batch.
C19_Witness ==
  /\ flush.done /\ flush.failed = "Article"
  /\ flush.order = <<"Note", "Article">>
  /\ flush.committed = <<"Note">>
  /\ \E i \in DOMAIN changes :
       /\ changes[i][1].class = "Note" /\ changes[i][2] = "insert"
       /\ DocCount("Note", KeyOf(changes[i][1])) = 1

C18_RowsHaveRanks ==
  (q # None /\ q[1].whoosh_rank # None) =>
    LET rank == q[1].whoosh_rank[1]
    IN  /\ \A pk \in Rows(q[1]) : Unicode(pk, "Integer") \in DOMAIN rank
        /\ \A k1, k2 \in DOMAIN rank : k1 # k2 => rank[k1] # rank[k2]
        /\ it # None => /\ it[1].error = "none"
                        /\ Range(it[1].out) = Range(it[1].rows)
                        /\ Len(it[1].out) = Len(it[1].rows)

\* C18 witness: a ranked query with a filter chained after the search was
\* iterated and yielded rows, after a commit took a document of its hits
\* off the index and while the store lacks the row of another hit.
C18_Witness ==
  /\ q # None /\ q[1].whoosh_rank # None
  /\ search = None
  /\ q[1].criterion \cap CallerFilters # {}
  /\ it # None /\ Len(it[1].out) >= 2
  /\ Cardinality(DOMAIN q[1].whoosh_rank[1]) = 3
  /\ \E k \in DOMAIN q[1].whoosh_rank[1] : DocCount("Article", k) = 0
  /\ \E k \in DOMAIN q[1].whoosh_rank[1] :
       DocCount("Article", k) > 0 /\ k \notin {Unicode(pk, "Integer") : pk \in table["Article"]}

====
